---------------------------- MODULE Spec2Model ----------------------------
(***************************************************************************)
(* Model of src/app.py: TavilyResearchAgent, the pain-point research agent *)
(* of iNube-Insuretech-finder.                                             *)
(*                                                                         *)
(* A Python str is a sequence of characters; a character is a one-letter   *)
(* TLA+ string.  research_company is a sequential process whose steps are  *)
(* split at its calls to the outside world (client.search, time.sleep);    *)
(* analyze_company_fit and the two extractors are pure and are computed by *)
(* operators that follow the loops of the source.                          *)
(***************************************************************************)
EXTENDS Integers, Sequences, FiniteSets, TLC

\* Python's None where a str is expected: a value no str is equal to.
None == << "None" >>

Min(a, b) == IF a < b THEN a ELSE b
Max(a, b) == IF a > b THEN a ELSE b

-----------------------------------------------------------------------------
(* Python str operations used by the source                                *)

\* U+0130 LATIN CAPITAL LETTER I WITH DOT ABOVE, the one character whose
\* str.lower() is two characters long: "i" followed by U+0307.
CapIDot == "#I"
CombDot == "#."

\* str.lower() of the capital letters A to Z.
LowerOf ==
  ("A" :> "a") @@ ("B" :> "b") @@ ("C" :> "c") @@ ("D" :> "d") @@
  ("E" :> "e") @@ ("F" :> "f") @@ ("G" :> "g") @@ ("H" :> "h") @@
  ("I" :> "i") @@ ("J" :> "j") @@ ("K" :> "k") @@ ("L" :> "l") @@
  ("M" :> "m") @@ ("N" :> "n") @@ ("O" :> "o") @@ ("P" :> "p") @@
  ("Q" :> "q") @@ ("R" :> "r") @@ ("S" :> "s") @@ ("T" :> "t") @@
  ("U" :> "u") @@ ("V" :> "v") @@ ("W" :> "w") @@ ("X" :> "x") @@
  ("Y" :> "y") @@ ("Z" :> "z")

\* str.lower() of one character.
LowerChar(c) ==
  IF c \in DOMAIN LowerOf THEN << LowerOf[c] >>
  ELSE IF c = CapIDot THEN << "i", CombDot >> ELSE << c >>

RECURSIVE LowerRange(_, _, _)
LowerRange(s, lo, hi) ==
  IF lo > hi THEN << >>
  ELSE IF lo = hi THEN LowerChar(s[lo])
  ELSE LET mid == (lo + hi) \div 2
       IN  LowerRange(s, lo, mid) \o LowerRange(s, mid + 1, hi)

\* s.lower()
Lower(s) == LowerRange(s, 1, Len(s))

\* s.find(k): the 0-based index of the first occurrence of k in s, or -1.
Find(s, k) ==
  LET at == { i \in 0..(Len(s) - Len(k)) :
                s[i + 1] = k[1] /\ SubSeq(s, i + 1, i + Len(k)) = k }
  IN  IF at = {} THEN -1 ELSE CHOOSE i \in at : \A j \in at : i <= j

\* k in s
Contains(k, s) == Find(s, k) # -1

\* s[a:b] for 0 <= a and 0 <= b: a slice never raises, it is clamped to s.
Slice(s, a, b) == SubSeq(s, Min(a, Len(s)) + 1, Min(b, Len(s)))

IsSpace(c) == c \in {" ", "\t", "\n"}

\* s.strip()
Strip(s) ==
  LET ink == { i \in 1..Len(s) : ~IsSpace(s[i]) }
  IN  IF ink = {} THEN << >>
      ELSE SubSeq(s, CHOOSE i \in ink : \A j \in ink : i <= j,
                     CHOOSE i \in ink : \A j \in ink : i >= j)

\* The elements of a list.
Elements(list) == { list[i] : i \in 1..Len(list) }

-----------------------------------------------------------------------------
(* TavilyResearchAgent.__init__                                            *)

\* The keys of self.iNube_services, in dict (insertion) order.
iNube_services ==
  << "policy_administration", "claims_management", "digital_distribution",
     "ai_analytics", "field_operations", "embedded_insurance" >>

\* The values of self.iNube_services, in the same order.
iNube_service_descriptions ==
  << "Modular Policy Administration System for Life, Health, General insurance",
     "AI-powered claims processing with fraud detection",
     "Digital onboarding and distribution platforms",
     "AI and predictive analytics for insurance operations",
     "Mobility suite for field operations and inspections",
     "API-first platforms for embedded insurance partnerships" >>

\* The keys of self.pain_points_mapping, in dict (insertion) order.
PainPointIds ==
  << "legacy_systems", "manual_processes", "customer_experience",
     "fraud_detection", "operational_efficiency", "data_analytics",
     "digital_transformation" >>

pain_points_mapping ==
  [ legacy_systems |->
      [ keywords |-> << <<"l","e","g","a","c","y"," ","s","y","s","t","e","m">>, <<"o","u","t","d","a","t","e","d"," ","t","e","c","h","n","o","l","o","g","y">>,
                        <<"o","l","d"," ","s","o","f","t","w","a","r","e">>, <<"s","y","s","t","e","m"," ","m","o","d","e","r","n","i","z","a","t","i","o","n">>,
                        <<"t","e","c","h","n","o","l","o","g","y"," ","u","p","g","r","a","d","e">>, <<"d","i","g","i","t","a","l"," ","t","r","a","n","s","f","o","r","m","a","t","i","o","n">>,
                        <<"m","o","d","e","r","n","i","z","a","t","i","o","n"," ","c","h","a","l","l","e","n","g","e">> >>,
        iNube_solutions |-> << "policy_administration", "digital_distribution",
                               "claims_management" >> ],
    manual_processes |->
      [ keywords |-> << <<"m","a","n","u","a","l"," ","p","r","o","c","e","s","s">>, <<"p","a","p","e","r","-","b","a","s","e","d">>,
                        <<"m","a","n","u","a","l"," ","d","a","t","a"," ","e","n","t","r","y">>, <<"m","a","n","u","a","l"," ","w","o","r","k","f","l","o","w">>,
                        <<"m","a","n","u","a","l"," ","i","n","t","e","r","v","e","n","t","i","o","n">>, <<"m","a","n","u","a","l"," ","h","a","n","d","l","i","n","g">>,
                        <<"m","a","n","u","a","l"," ","v","e","r","i","f","i","c","a","t","i","o","n">> >>,
        iNube_solutions |-> << "claims_management", "field_operations",
                               "ai_analytics" >> ],
    customer_experience |->
      [ keywords |-> << <<"c","u","s","t","o","m","e","r"," ","s","a","t","i","s","f","a","c","t","i","o","n">>, <<"c","u","s","t","o","m","e","r"," ","c","h","u","r","n">>,
                        <<"c","u","s","t","o","m","e","r"," ","r","e","t","e","n","t","i","o","n">>, <<"d","i","g","i","t","a","l"," ","o","n","b","o","a","r","d","i","n","g">>,
                        <<"c","u","s","t","o","m","e","r"," ","e","x","p","e","r","i","e","n","c","e">>, <<"p","o","l","i","c","y","h","o","l","d","e","r"," ","e","x","p","e","r","i","e","n","c","e">> >>,
        iNube_solutions |-> << "digital_distribution", "embedded_insurance",
                               "policy_administration" >> ],
    fraud_detection |->
      [ keywords |-> << <<"i","n","s","u","r","a","n","c","e"," ","f","r","a","u","d">>, <<"f","r","a","u","d"," ","d","e","t","e","c","t","i","o","n">>,
                        <<"f","a","l","s","e"," ","c","l","a","i","m","s">>, <<"c","l","a","i","m","s"," ","f","r","a","u","d">>,
                        <<"f","r","a","u","d"," ","p","r","e","v","e","n","t","i","o","n">>, <<"f","r","a","u","d","u","l","e","n","t"," ","a","c","t","i","v","i","t","i","e","s">> >>,
        iNube_solutions |-> << "claims_management", "ai_analytics" >> ],
    operational_efficiency |->
      [ keywords |-> << <<"o","p","e","r","a","t","i","o","n","a","l"," ","e","f","f","i","c","i","e","n","c","y">>, <<"p","r","o","c","e","s","s"," ","e","f","f","i","c","i","e","n","c","y">>,
                        <<"c","o","s","t"," ","r","e","d","u","c","t","i","o","n">>, <<"s","t","r","e","a","m","l","i","n","e"," ","o","p","e","r","a","t","i","o","n","s">>,
                        <<"e","f","f","i","c","i","e","n","c","y"," ","i","m","p","r","o","v","e","m","e","n","t">>, <<"o","p","e","r","a","t","i","o","n","a","l"," ","c","o","s","t">> >>,
        iNube_solutions |-> << "policy_administration", "claims_management",
                               "field_operations" >> ],
    data_analytics |->
      [ keywords |-> << <<"d","a","t","a"," ","a","n","a","l","y","t","i","c","s">>, <<"b","u","s","i","n","e","s","s"," ","i","n","t","e","l","l","i","g","e","n","c","e">>,
                        <<"p","r","e","d","i","c","t","i","v","e"," ","a","n","a","l","y","t","i","c","s">>, <<"d","a","t","a","-","d","r","i","v","e","n"," ","d","e","c","i","s","i","o","n","s">>,
                        <<"a","n","a","l","y","t","i","c","s"," ","c","a","p","a","b","i","l","i","t","y">>, <<"d","a","t","a"," ","i","n","s","i","g","h","t","s">> >>,
        iNube_solutions |-> << "ai_analytics", "claims_management" >> ],
    digital_transformation |->
      [ keywords |-> << <<"d","i","g","i","t","a","l"," ","t","r","a","n","s","f","o","r","m","a","t","i","o","n">>, <<"d","i","g","i","t","a","l"," ","j","o","u","r","n","e","y">>,
                        <<"d","i","g","i","t","a","l"," ","c","a","p","a","b","i","l","i","t","y">>, <<"d","i","g","i","t","a","l"," ","i","n","i","t","i","a","t","i","v","e">>,
                        <<"t","e","c","h","n","o","l","o","g","y"," ","a","d","o","p","t","i","o","n">>, <<"d","i","g","i","t","a","l"," ","s","t","r","a","t","e","g","y">> >>,
        iNube_solutions |-> << "digital_distribution", "embedded_insurance",
                               "policy_administration" >> ] ]

-----------------------------------------------------------------------------
(* _extract_pain_points                                                    *)

\* Characters taken before and after the match index (lines 198-199).
PainWindowBefore == 150
PainWindowAfter == 300
\* A trimmed window must be longer than this to be kept (line 202).
MinContextLen == 50
\* A trimmed window longer than this is labelled "high" (line 211).
HighConfidenceLen == 100

\* "May 2025" if "2025" in query else "General"
TimePeriodOf(query) ==
  IF Contains(<<"2","0","2","5">>, query) THEN "May 2025" ELSE "General"

\* start_idx and end_idx of the window around the first occurrence of
\* keyword in content_lower; the two index content.
PainStartIdx(content_lower, keyword) ==
  Max(0, Find(content_lower, keyword) - PainWindowBefore)
PainEndIdx(content, content_lower, keyword) ==
  Min(Len(content), Find(content_lower, keyword) + PainWindowAfter)

\* context = content[start_idx:end_idx].strip()
PainContext(content, content_lower, keyword) ==
  Strip(Slice(content, PainStartIdx(content_lower, keyword),
                       PainEndIdx(content, content_lower, keyword)))

\* The length test with its threshold lost: any non-empty window is kept.
ContextKeptNonEmpty(context) == Len(context) > 0

\* if len(context) > 50
ContextKept(context) == Len(context) > MinContextLen

\* The dict appended to pain_points.  pain_point_name, a display form of
\* pain_point_id, is left out.
PainPoint(pain_point_id, context, result, keyword, query) ==
  [ pain_point_id   |-> pain_point_id,
    evidence        |-> context,
    source_url      |-> result.url,
    source_title    |-> result.title,
    keyword_found   |-> keyword,
    iNube_solutions |-> pain_points_mapping[pain_point_id].iNube_solutions,
    confidence      |-> IF Len(context) > HighConfidenceLen
                          THEN "high" ELSE "medium",
    time_period     |-> TimePeriodOf(query) ]

\* The body of "if keyword in content_lower" up to the break: the Evidence
\* of one matching keyword, or nothing when its trimmed window is too short.
MatchEvidence(pain_point_id, keyword, result, content_lower, query) ==
  LET context == PainContext(result.content, content_lower, keyword)
  IN  IF ContextKept(context)
        THEN << PainPoint(pain_point_id, context, result, keyword, query) >>
        ELSE << >>

\* The inner loop with the break left out: every matching keyword is recorded.
RECURSIVE ScanKeywordsNoBreak(_, _, _, _, _)
ScanKeywordsNoBreak(pain_point_id, k, result, content_lower, query) ==
  LET keywords == pain_points_mapping[pain_point_id].keywords
  IN  IF k > Len(keywords) THEN << >>
      ELSE IF Contains(keywords[k], content_lower)
        THEN MatchEvidence(pain_point_id, keywords[k], result, content_lower, query)
               \o ScanKeywordsNoBreak(pain_point_id, k + 1, result, content_lower, query)
        ELSE ScanKeywordsNoBreak(pain_point_id, k + 1, result, content_lower, query)

\* The inner loop with the break moved under "if len(context) > 50": after a
\* discarded match the scan goes on to the later keywords.
RECURSIVE ScanKeywordsBreakIfKept(_, _, _, _, _)
ScanKeywordsBreakIfKept(pain_point_id, k, result, content_lower, query) ==
  LET keywords == pain_points_mapping[pain_point_id].keywords
      found    == MatchEvidence(pain_point_id, keywords[k], result, content_lower, query)
  IN  IF k > Len(keywords) THEN << >>
      ELSE IF Contains(keywords[k], content_lower) /\ found # << >>
        THEN found
        ELSE ScanKeywordsBreakIfKept(pain_point_id, k + 1, result, content_lower, query)

\* for keyword in pain_point_data["keywords"], from keyword number k on: the
\* first keyword found in content_lower ends the loop (break), whether or
\* not its window was kept.
RECURSIVE ScanKeywords(_, _, _, _, _)
ScanKeywords(pain_point_id, k, result, content_lower, query) ==
  LET keywords == pain_points_mapping[pain_point_id].keywords
  IN  IF k > Len(keywords) THEN << >>
      ELSE IF Contains(keywords[k], content_lower)
        THEN MatchEvidence(pain_point_id, keywords[k], result, content_lower, query)
        ELSE ScanKeywords(pain_point_id, k + 1, result, content_lower, query)

\* for pain_point_id, pain_point_data in self.pain_points_mapping.items()
RECURSIVE ScanPainPoints(_, _, _, _)
ScanPainPoints(p, result, content_lower, query) ==
  IF p > Len(PainPointIds) THEN << >>
  ELSE ScanKeywords(PainPointIds[p], 1, result, content_lower, query)
         \o ScanPainPoints(p + 1, result, content_lower, query)

\* content.lower() raises AttributeError when the record's content is None.
ContentRaises(result) == result.content = None

\* _extract_pain_points(result, query), for a record whose content is a str.
_extract_pain_points(result, query) ==
  ScanPainPoints(1, result, Lower(result.content), query)

-----------------------------------------------------------------------------
(* _extract_key_points                                                     *)

\* The keys of categories, in dict (insertion) order.
KeyPointCategories ==
  << "business_model", "technology", "challenges", "operations", "growth",
     "insurance" >>

categories ==
  [ business_model |-> << <<"s","e","r","v","i","c","e","s">>, <<"p","r","o","d","u","c","t","s">>, <<"b","u","s","i","n","e","s","s"," ","m","o","d","e","l">>,
                          <<"o","f","f","e","r","i","n","g">>, <<"s","o","l","u","t","i","o","n","s">>, <<"r","e","v","e","n","u","e">> >>,
    technology     |-> << <<"t","e","c","h","n","o","l","o","g","y">>, <<"d","i","g","i","t","a","l">>, <<"s","o","f","t","w","a","r","e">>,
                          <<"p","l","a","t","f","o","r","m">>, <<"A","I">>, <<"a","u","t","o","m","a","t","i","o","n">>, <<"c","l","o","u","d">>,
                          <<"I","T">> >>,
    challenges     |-> << <<"c","h","a","l","l","e","n","g","e">>, <<"p","r","o","b","l","e","m">>, <<"i","s","s","u","e">>,
                          <<"l","i","m","i","t","a","t","i","o","n">>, <<"g","a","p">>, <<"d","i","f","f","i","c","u","l","t","y">>,
                          <<"b","o","t","t","l","e","n","e","c","k">> >>,
    operations     |-> << <<"o","p","e","r","a","t","i","o","n","s">>, <<"p","r","o","c","e","s","s">>, <<"w","o","r","k","f","l","o","w">>,
                          <<"e","f","f","i","c","i","e","n","c","y">>, <<"c","o","s","t">>, <<"m","a","n","u","a","l">>, <<"l","e","g","a","c","y">> >>,
    growth         |-> << <<"g","r","o","w","t","h">>, <<"e","x","p","a","n","s","i","o","n">>, <<"m","a","r","k","e","t">>, <<"c","u","s","t","o","m","e","r">>,
                          <<"r","e","v","e","n","u","e">>, <<"p","r","e","m","i","u","m">>, <<"p","r","o","f","i","t">> >>,
    insurance      |-> << <<"i","n","s","u","r","a","n","c","e">>, <<"p","o","l","i","c","y">>, <<"c","l","a","i","m">>,
                          <<"u","n","d","e","r","w","r","i","t","i","n","g">>, <<"p","r","e","m","i","u","m">>, <<"r","i","s","k">>,
                          <<"c","o","v","e","r","a","g","e">> >> ]

\* Characters taken before and after the match index (lines 239-240).
KeyWindowBefore == 100
KeyWindowAfter == 200

\* context = content[start_idx:end_idx].strip() of _extract_key_points
KeyContext(content, content_lower, keyword) ==
  Strip(Slice(content,
              Max(0, Find(content_lower, keyword) - KeyWindowBefore),
              Min(Len(content), Find(content_lower, keyword) + KeyWindowAfter)))

\* The dict appended to points.
KeyPoint(category, context, result, query) ==
  [ point        |-> context,
    category     |-> category,
    source_url   |-> result.url,
    source_title |-> result.title,
    relevance    |-> "medium",
    time_period  |-> TimePeriodOf(query) ]

\* for keyword in keywords: ... break, from keyword number k on.
RECURSIVE ScanKeyKeywords(_, _, _, _, _)
ScanKeyKeywords(category, k, result, content_lower, query) ==
  LET keywords == categories[category]
  IN  IF k > Len(keywords) THEN << >>
      ELSE IF Contains(keywords[k], content_lower)
        THEN << KeyPoint(category,
                         KeyContext(result.content, content_lower, keywords[k]),
                         result, query) >>
        ELSE ScanKeyKeywords(category, k + 1, result, content_lower, query)

\* for category, keywords in categories.items()
RECURSIVE ScanCategories(_, _, _, _)
ScanCategories(c, result, content_lower, query) ==
  IF c > Len(KeyPointCategories) THEN << >>
  ELSE ScanKeyKeywords(KeyPointCategories[c], 1, result, content_lower, query)
         \o ScanCategories(c + 1, result, content_lower, query)

\* _extract_key_points(result, query), for a record whose content is a str.
_extract_key_points(result, query) ==
  ScanCategories(1, result, Lower(result.content), query)

-----------------------------------------------------------------------------
(* research_company: the query templates                                   *)

\* n copies of the character c.
Pad(n, c) == [ i \in 1..n |-> c ]

\* The company names a request is made for.  The second contains "2025".
CompanyNames == { <<"A","c","m","e"," ","I","n","s","u","r","a","n","c","e">>, <<"V","i","s","i","o","n"," ","2","0","2","5"," ","M","u","t","u","a","l">> }

\* The text of base_queries after {company_name} (lines 74-83).
BaseTemplates ==
  << <<" ","c","h","a","l","l","e","n","g","e","s"," ","p","r","o","b","l","e","m","s"," ","i","s","s","u","e","s"," ","d","i","f","f","i","c","u","l","t","i","e","s">>,
     <<" ","d","i","g","i","t","a","l"," ","t","r","a","n","s","f","o","r","m","a","t","i","o","n"," ","l","e","g","a","c","y"," ","s","y","s","t","e","m","s"," ","m","o","d","e","r","n","i","z","a","t","i","o","n">>,
     <<" ","o","p","e","r","a","t","i","o","n","a","l"," ","e","f","f","i","c","i","e","n","c","y"," ","c","o","s","t"," ","r","e","d","u","c","t","i","o","n"," ","m","a","n","u","a","l"," ","p","r","o","c","e","s","s","e","s">>,
     <<" ","c","u","s","t","o","m","e","r"," ","e","x","p","e","r","i","e","n","c","e"," ","p","o","l","i","c","y","h","o","l","d","e","r"," ","s","a","t","i","s","f","a","c","t","i","o","n"," ","c","h","u","r","n">>,
     <<" ","c","l","a","i","m","s"," ","p","r","o","c","e","s","s","i","n","g"," ","f","r","a","u","d"," ","d","e","t","e","c","t","i","o","n"," ","t","e","c","h","n","o","l","o","g","y"," ","g","a","p","s">>,
     <<" ","t","e","c","h","n","o","l","o","g","y"," ","s","t","a","c","k"," ","I","T"," ","s","y","s","t","e","m","s"," ","s","o","f","t","w","a","r","e"," ","p","l","a","t","f","o","r","m","s">>,
     <<" ","f","i","n","a","n","c","i","a","l"," ","r","e","s","u","l","t","s"," ","o","p","e","r","a","t","i","o","n","a","l"," ","p","e","r","f","o","r","m","a","n","c","e"," ","i","n","v","e","s","t","o","r"," ","p","r","e","s","e","n","t","a","t","i","o","n">>,
     <<" ","n","e","w","s"," ","u","p","d","a","t","e","s"," ","r","e","c","e","n","t"," ","d","e","v","e","l","o","p","m","e","n","t","s"," ","t","e","c","h","n","o","l","o","g","y"," ","i","n","i","t","i","a","t","i","v","e","s">> >>

\* The text of may_2025_queries after {company_name} (lines 130-137).
May2025Templates ==
  << <<" ","c","h","a","l","l","e","n","g","e","s"," ","2","0","2","5">>,
     <<" ","t","e","c","h","n","o","l","o","g","y"," ","i","s","s","u","e","s"," ","2","0","2","5">>,
     <<" ","d","i","g","i","t","a","l"," ","t","r","a","n","s","f","o","r","m","a","t","i","o","n"," ","2","0","2","5">>,
     <<" ","o","p","e","r","a","t","i","o","n","a","l"," ","e","f","f","i","c","i","e","n","c","y"," ","2","0","2","5">>,
     <<" ","c","u","s","t","o","m","e","r"," ","e","x","p","e","r","i","e","n","c","e"," ","2","0","2","5">>,
     <<" ","i","n","s","u","r","a","n","c","e"," ","c","h","a","l","l","e","n","g","e","s"," ","2","0","2","5">> >>

\* base_queries
base_queries(name) ==
  [ i \in 1..Len(BaseTemplates) |-> name \o BaseTemplates[i] ]

\* may_2025_queries
may_2025_queries(name) ==
  [ i \in 1..Len(May2025Templates) |-> name \o May2025Templates[i] ]

\* The queries of one request in the order of the two loops: the May 2025
\* loop runs only "if include_may_2025".
Queries(name, include) ==
  IF include THEN base_queries(name) \o may_2025_queries(name)
             ELSE base_queries(name)

\* The number of queries of one request.
NumQueries(include) ==
  IF include THEN Len(BaseTemplates) + Len(May2025Templates)
             ELSE Len(BaseTemplates)

\* Query number q is issued by the first loop.
IsBaseQuery(q) == q <= Len(BaseTemplates)

-----------------------------------------------------------------------------
(* State                                                                   *)

VARIABLES
  pc,               \* where the run of main() stands
  qi,               \* research_company: number of the query of the loops
  company_name,     \* research_company: argument
  include_may_2025, \* research_company: argument
  hash_order,       \* the order in which this process enumerates a set of
                    \*   service names, << >> while no such set was enumerated
  all_results,      \* research_company: local list
  analysis_data,    \* research_company: local dict, then research_data
  analysis,         \* the dict analyze_company_fit returned, or None
  pp_owner,         \* history: for each entry of identified_pain_points,
                    \*   the index in all_results of the record it came from
  issued,           \* history: the numbers of the queries client.search
                    \*   was called with, in call order
  search_failed,    \* history: some client.search call of the request raised
  extract_call,     \* one call of _extract_pain_points: arguments and return
  last_answer       \* history: the synthesized answer of the response the
                    \*   body of the try has in hand, from client.search to
                    \*   time.sleep(1); None when that response carries
                    \*   none, and outside the body of the try

vars == << pc, qi, company_name, include_may_2025, hash_order, all_results,
           analysis_data, analysis, pp_owner, issued, search_failed,
           extract_call, last_answer >>

\* analysis_data as research_company builds it (lines 86-93).  sources is
\* held as a set: the source builds the list from a set of tuples, so its
\* order carries nothing.
EmptyAnalysisData ==
  [ sources                |-> {},
    research_points        |-> << >>,
    identified_pain_points |-> << >>,
    may_2025_sources       |-> << >> ]

\* The orders in which list(set(...)) may enumerate the service names: the
\* order depends on the hash seed of the process and is fixed within it.
\* Nothing shows it before the first enumeration, which is where the model
\* draws it.
HashOrders ==
  { iNube_services,
    << "embedded_insurance", "field_operations", "ai_analytics",
       "digital_distribution", "claims_management", "policy_administration" >> }

\* analysis before analyze_company_fit has returned.
NoAnalysis == [ returned |-> FALSE ]

\* The return of a call: the list returned, or the exception raised.
Returned(value) == [ raised |-> "", value |-> value ]
Raised(exception) == [ raised |-> exception, value |-> << >> ]

\* extract_call when _extract_pain_points is not called on its own.
NoCall ==
  [ result |-> [ title |-> "", url |-> "", content |-> << >> ],
    query  |-> << >>,
    ret    |-> Returned(<< >>) ]

-----------------------------------------------------------------------------
(* One call of _extract_pain_points on a bounded family of records         *)

\* Record contents: the short, the long, the padded and the oddly cased.
ExtractContents ==
  { \* a keyword alone: the window is the 13 characters of the content
    <<"l","e","g","a","c","y"," ","s","y","s","t","e","m">>,
    \* two keywords of legacy_systems, the first in capitals
    Pad(60, "q") \o <<"O","u","r"," ","L","e","g","a","c","y"," ","S","y","s","t","e","m"," ","a","n","d"," ","o","u","t","d","a","t","e","d"," ","t","e","c","h","n","o","l","o","g","y"," ">> \o Pad(60, "q"),
    \* a keyword with more than 150 characters before and 300 after it
    Pad(200, "q") \o <<"f","r","a","u","d"," ","d","e","t","e","c","t","i","o","n">> \o Pad(400, "q"),
    \* a keyword in the middle of white space
    Pad(100, " ") \o <<"m","a","n","u","a","l"," ","p","r","o","c","e","s","s">> \o Pad(100, " "),
    \* the first keyword of legacy_systems in a window of blanks, the third
    \* one in a window of text
    <<"l","e","g","a","c","y"," ","s","y","s","t","e","m">> \o Pad(400, " ") \o <<"o","l","d"," ","s","o","f","t","w","a","r","e">> \o Pad(100, "q"),
    \* no keyword at all
    Pad(80, "q"),
    \* a keyword that two categories list
    <<"d","i","g","i","t","a","l"," ","t","r","a","n","s","f","o","r","m","a","t","i","o","n">> \o Pad(60, "q"),
    \* a keyword at the very end
    Pad(100, "q") \o <<"d","a","t","a"," ","a","n","a","l","y","t","i","c","s">>,
    \* trimmed windows of exactly 50 and of 51 characters
    <<"c","o","s","t"," ","r","e","d","u","c","t","i","o","n">> \o Pad(36, "q"),
    <<"c","o","s","t"," ","r","e","d","u","c","t","i","o","n">> \o Pad(37, "q"),
    \* capital dotted I before the keyword: content_lower is longer than content
    Pad(13, CapIDot) \o <<"l","e","g","a","c","y"," ","s","y","s","t","e","m">>,
    Pad(200, CapIDot) \o <<"l","e","g","a","c","y"," ","s","y","s","t","e","m">> \o Pad(300, "q") }

ExtractRecords ==
  { [ title |-> "t1", url |-> "u1", content |-> c ] : c \in ExtractContents }
    \cup { [ title |-> "t1", url |-> "u1", content |-> None ] }

InitExtract ==
  /\ pc = "extract"
  /\ qi = 0
  /\ company_name \in CompanyNames
  /\ include_may_2025 = TRUE
  /\ hash_order = << >>
  /\ all_results = << >>
  /\ analysis_data = EmptyAnalysisData
  /\ analysis = NoAnalysis
  /\ pp_owner = << >>
  /\ issued = << >>
  /\ search_failed = FALSE
  /\ last_answer = None
  /\ \E r \in ExtractRecords :
       \E q \in 1..Len(Queries(company_name, TRUE)) :
         extract_call = [ result |-> r,
                          query  |-> Queries(company_name, TRUE)[q],
                          ret    |-> Returned(<< >>) ]

\* pain_points = self._extract_pain_points(result, query)
ExtractPainPointsCall ==
  /\ pc = "extract"
  /\ pc' = "extracted"
  /\ extract_call' =
       [ extract_call EXCEPT !.ret =
           IF ContentRaises(extract_call.result)
             THEN Raised("AttributeError")
             ELSE Returned(_extract_pain_points(extract_call.result,
                                                extract_call.query)) ]
  /\ UNCHANGED << qi, company_name, include_may_2025, hash_order, all_results,
                  analysis_data, analysis, pp_owner, issued, search_failed,
                  last_answer >>

NextExtract == ExtractPainPointsCall

SpecExtract == InitExtract /\ [][NextExtract]_vars

-----------------------------------------------------------------------------
(* The search collaborator                                                 *)

\* max_results of both search calls (lines 101 and 144).
MaxResults == 3

\* The most records the search collaborator returns over one request.
MaxRecords == 2

\* The records the search collaborator returns: one with two keywords of
\* legacy_systems, one whose content is None, one of more than 500
\* characters whose first legacy_systems keyword sits in blanks.
SearchRecords ==
  { [ title |-> "t1", url |-> "u1",
      content |-> Pad(60, "q") \o <<"O","u","r"," ","L","e","g","a","c","y"," ","S","y","s","t","e","m"," ","a","n","d"," ","o","u","t","d","a","t","e","d"," ","t","e","c","h","n","o","l","o","g","y"," ">>
                    \o Pad(60, "q") ],
    [ title |-> "t2", url |-> "u2", content |-> None ],
    [ title |-> "t3", url |-> "u1",
      content |-> <<"l","e","g","a","c","y"," ","s","y","s","t","e","m">> \o Pad(400, " ") \o <<"o","l","d"," ","s","o","f","t","w","a","r","e">>
                    \o Pad(100, "q") ] }

\* The synthesized answer of a response that has one.
AnswerText == <<"A","c","m","e"," ","h","a","s"," ","l","e","g","a","c","y"," ","t","e","c","h","n","o","l","o","g","y"," ","a","n","d"," ","c","o","s","t"," ","c","h","a","l","l","e","n","g","e","s">>

\* The lists of at most n records.
RECURSIVE RecordLists(_)
RecordLists(n) ==
  IF n = 0 THEN { << >> }
  ELSE LET shorter == RecordLists(n - 1)
       IN  shorter \cup { Append(l, r) : l \in { s \in shorter : Len(s) = n - 1 },
                                         r \in SearchRecords }

\* What client.search returns: None, or a dict with or without the key
\* 'results' and with or without an answer.
Responses(room) ==
  { [ present |-> FALSE, has_results |-> FALSE, results |-> << >>,
      answer |-> None ] }
    \cup { [ present |-> TRUE, has_results |-> FALSE, results |-> << >>,
             answer |-> AnswerText ] }
    \cup { [ present |-> TRUE, has_results |-> TRUE, results |-> l, answer |-> a ] :
             l \in RecordLists(Min(MaxResults, room)), a \in { None, AnswerText } }

\* Every query a request can issue.
AllQueries ==
  UNION { Elements(Queries(name, TRUE)) : name \in CompanyNames }

\* The values of the two extractors on the records the collaborator
\* returns, computed once: the records whose content is a str, with every
\* query.
Extractions ==
  { [ result      |-> r,
      query       |-> q,
      points      |-> _extract_key_points(r, q),
      pain_points |-> _extract_pain_points(r, q) ] :
    r \in { s \in SearchRecords : ~ContentRaises(s) }, q \in AllQueries }

\* points = self._extract_key_points(result, query) and
\* pain_points = self._extract_pain_points(result, query)
Extraction(result, query) ==
  CHOOSE e \in Extractions : e.query = query /\ e.result = result

-----------------------------------------------------------------------------
(* The entries of a bounded family of research_data                        *)

\* The most Evidence entries and the most research points of an input.
MaxEvidence == 4
MaxPoints == 5

\* The record and the queries the entries of an input are attributed to.
FitRecord == [ title |-> "t1", url |-> "u1", content |-> << >> ]
FitBaseQuery == base_queries(<<"A","c","m","e"," ","I","n","s","u","r","a","n","c","e">>)[1]
FitMayQuery == may_2025_queries(<<"A","c","m","e"," ","I","n","s","u","r","a","n","c","e">>)[1]

\* An Evidence of a category as _extract_pain_points builds it, around the
\* first keyword of the category.
FitEvidence(pain_point_id, query) ==
  LET keyword == pain_points_mapping[pain_point_id].keywords[1]
  IN  PainPoint(pain_point_id, Pad(30, "q") \o keyword \o Pad(30, "q"),
                FitRecord, keyword, query)

\* The kinds of Evidence of an input: three categories that together name
\* all six services, one of them found by a May 2025 query, and a fourth.
FitEvidenceKinds ==
  << FitEvidence("legacy_systems", FitBaseQuery),
     FitEvidence("manual_processes", FitBaseQuery),
     FitEvidence("customer_experience", FitMayQuery),
     FitEvidence("fraud_detection", FitBaseQuery) >>

\* The kinds of research point of an input: a technology text, a challenge
\* text, a text that is technology, challenge and insurance at once, and a
\* text with no keyword.
FitPointKinds ==
  << KeyPoint("technology", <<"C","l","o","u","d"," ","p","l","a","t","f","o","r","m">>, FitRecord, FitBaseQuery),
     KeyPoint("operations", <<"h","i","g","h"," ","c","o","s","t">>, FitRecord, FitBaseQuery),
     KeyPoint("insurance", <<"m","a","n","u","a","l"," ","l","e","g","a","c","y"," ","p","o","l","i","c","y"," ","w","o","r","k">>, FitRecord, FitBaseQuery),
     KeyPoint("growth", <<"a","n","n","u","a","l"," ","r","e","p","o","r","t">>, FitRecord, FitBaseQuery) >>

-----------------------------------------------------------------------------
(* analyze_company_fit                                                     *)

tech_keywords ==
  << <<"l","e","g","a","c","y">>, <<"m","o","d","e","r","n","i","z","a","t","i","o","n">>, <<"d","i","g","i","t","a","l">>, <<"a","u","t","o","m","a","t","i","o","n">>, <<"A","I">>,
     <<"c","l","o","u","d">>, <<"t","e","c","h","n","o","l","o","g","y">>, <<"s","o","f","t","w","a","r","e">> >>
challenge_keywords ==
  << <<"c","o","s","t">>, <<"e","f","f","i","c","i","e","n","c","y">>, <<"m","a","n","u","a","l">>, <<"s","l","o","w">>, <<"i","n","t","e","g","r","a","t","i","o","n">>,
     <<"c","o","m","p","l","i","a","n","c","e">>, <<"c","h","a","l","l","e","n","g","e">>, <<"p","r","o","b","l","e","m">> >>
insurance_keywords ==
  << <<"p","o","l","i","c","y">>, <<"c","l","a","i","m">>, <<"u","n","d","e","r","w","r","i","t","i","n","g">>, <<"p","r","e","m","i","u","m">>, <<"i","n","s","u","r","a","n","c","e">>,
     <<"r","i","s","k">>, <<"c","o","v","e","r","a","g","e">> >>

\* any(keyword in point_text for keyword in keywords)
AnyKeyword(keywords, point_text) ==
  \E k \in 1..Len(keywords) : Contains(keywords[k], point_text)

\* point_text = point["point"].lower() and the three any(...) tests of the
\* loop over research_points (lines 288-298).
Classify(point) ==
  LET point_text == Lower(point)
  IN  [ is_insurance |-> AnyKeyword(insurance_keywords, point_text),
        is_tech      |-> AnyKeyword(tech_keywords, point_text),
        is_challenge |-> AnyKeyword(challenge_keywords, point_text) ]

\* The texts of the research points of the requests and of the inputs of
\* analyze_company_fit, and their classes, computed once.
PointTexts ==
  { FitPointKinds[k].point : k \in 1..Len(FitPointKinds) }
    \cup UNION { { e.points[i].point : i \in 1..Len(e.points) } : e \in Extractions }

PointClasses ==
  { [ point |-> t, class |-> Classify(t) ] : t \in PointTexts }

\* Classify(point), looked up for the texts above.
ClassOf(point) ==
  IF point \in PointTexts
    THEN (CHOOSE c \in PointClasses : c.point = point).class
    ELSE Classify(point)

\* The counters and lists of analysis before the loop over research_points.
ScanStart ==
  [ industry              |-> "Unknown",
    technology_stack      |-> << >>,
    identified_challenges |-> << >>,
    tech_count            |-> 0,
    challenge_count       |-> 0,
    insurance_count       |-> 0 ]

\* for point in research_data.get("research_points", []), from entry n on.
RECURSIVE ScanResearchPoints(_, _, _)
ScanResearchPoints(research_points, n, acc) ==
  IF n > Len(research_points) THEN acc
  ELSE
    LET point        == research_points[n]
        class        == ClassOf(point.point)
        is_insurance == class.is_insurance
        is_tech      == class.is_tech
        is_challenge == class.is_challenge
    IN  ScanResearchPoints(research_points, n + 1,
          [ industry |-> IF is_insurance THEN "Insurance" ELSE acc.industry,
            insurance_count |->
              acc.insurance_count + (IF is_insurance THEN 1 ELSE 0),
            tech_count |-> acc.tech_count + (IF is_tech THEN 1 ELSE 0),
            technology_stack |->
              IF is_tech /\ point.point \notin Elements(acc.technology_stack)
                THEN Append(acc.technology_stack, point.point)
                ELSE acc.technology_stack,
            challenge_count |->
              acc.challenge_count + (IF is_challenge THEN 1 ELSE 0),
            identified_challenges |->
              IF is_challenge
                 /\ point.point \notin Elements(acc.identified_challenges)
                THEN Append(acc.identified_challenges, point.point)
                ELSE acc.identified_challenges ])

\* digital_maturity (lines 304-309)
DigitalMaturity(tech_count) ==
  IF tech_count > 5 THEN "high"
  ELSE IF tech_count > 2 THEN "medium"
  ELSE "low"

\* all_recommended_services (lines 311-313)
RECURSIVE AllRecommendedServices(_, _)
AllRecommendedServices(validated_pain_points, n) ==
  IF n > Len(validated_pain_points) THEN << >>
  ELSE validated_pain_points[n].iNube_solutions
         \o AllRecommendedServices(validated_pain_points, n + 1)

\* The elements of a sequence that belong to a set, in the sequence's order.
RECURSIVE Filter(_, _, _)
Filter(seq, n, S) ==
  IF n > Len(seq) THEN << >>
  ELSE (IF seq[n] \in S THEN << seq[n] >> ELSE << >>) \o Filter(seq, n + 1, S)

\* Some enumeration of a finite set.
RECURSIVE Enumerate(_)
Enumerate(S) ==
  IF S = {} THEN << >>
  ELSE LET x == CHOOSE y \in S : TRUE IN << x >> \o Enumerate(S \ {x})

\* list(set(names)): the names without repetition, the service names in
\* the order of the process, any other name after them.
ListOfSet(names, order) ==
  Filter(order, 1, Elements(names))
    \o Enumerate(Elements(names) \ Elements(order))

\* The cap of the evidence-derived list and the length of the fallback list
\* (lines 315 and 318).
ServiceCap == 6
FallbackCount == 3

\* Lines 311-318 with the cap of line 315 taken for that of line 318.
PotentialServicesCap3(validated_pain_points, challenge_count, tech_count, order) ==
  LET derived ==
        Slice(ListOfSet(AllRecommendedServices(validated_pain_points, 1), order),
              0, FallbackCount)
  IN  IF derived = << >> /\ (challenge_count > 0 \/ tech_count < 3)
        THEN Slice(iNube_services, 0, FallbackCount)
        ELSE derived

\* Lines 311-318 with the fallback taken from the values of the catalog
\* instead of its keys.
PotentialServicesValues(validated_pain_points, challenge_count, tech_count, order) ==
  LET derived ==
        Slice(ListOfSet(AllRecommendedServices(validated_pain_points, 1), order),
              0, ServiceCap)
  IN  IF derived = << >> /\ (challenge_count > 0 \/ tech_count < 3)
        THEN Slice(iNube_service_descriptions, 0, FallbackCount)
        ELSE derived

\* analysis["potential_iNube_services"] (lines 311-318)
PotentialServices(validated_pain_points, challenge_count, tech_count, order) ==
  LET derived ==
        Slice(ListOfSet(AllRecommendedServices(validated_pain_points, 1), order),
              0, ServiceCap)
  IN  IF derived = << >> /\ (challenge_count > 0 \/ tech_count < 3)
        THEN Slice(iNube_services, 0, FallbackCount)
        ELSE derived

\* The score with every min() left out.
ConfidenceScoreUnclamped(pain_point_count, tech_count, challenge_count) ==
  pain_point_count * 15 + tech_count * 5 + challenge_count * 5

\* analysis["confidence_score"] (lines 320-324)
ConfidenceScore(pain_point_count, tech_count, challenge_count) ==
  LET pain_point_score == Min(50, pain_point_count * 15)
      tech_score       == Min(25, tech_count * 5)
      challenge_score  == Min(25, challenge_count * 5)
  IN  Min(100, pain_point_score + tech_score + challenge_score)

\* len([pp for pp in validated_pain_points if pp.get('time_period') == 'May 2025'])
May2025Count(validated_pain_points) ==
  Cardinality({ i \in 1..Len(validated_pain_points) :
                  validated_pain_points[i].time_period = "May 2025" })

\* The recommendation with the last threshold at 0 instead of 30.
RecommendationNoFloor(confidence, validated_pain_points) ==
  LET pain_point_count == Len(validated_pain_points)
      may_2025_count   == May2025Count(validated_pain_points)
  IN  IF confidence >= 70 /\ pain_point_count >= 2 THEN
        IF may_2025_count > 0
          THEN "STRONG RECOMMENDATION - Multiple validated pain points found with recent May 2025 source evidence"
          ELSE "STRONG RECOMMENDATION - Multiple validated pain points found with source evidence"
      ELSE IF confidence >= 50 /\ pain_point_count >= 1 THEN
        IF may_2025_count > 0
          THEN "MODERATE RECOMMENDATION - Validated pain points identified with recent May 2025 source URLs"
          ELSE "MODERATE RECOMMENDATION - Validated pain points identified with source URLs"
      ELSE IF confidence >= 0 THEN
        "WEAK RECOMMENDATION - Some challenges identified but limited pain point evidence"
      ELSE
        "INSUFFICIENT EVIDENCE - No validated pain points with source proof found"

\* The recommendation with "pain_point_count == 2" for the first test.
RecommendationExactlyTwo(confidence, validated_pain_points) ==
  LET pain_point_count == Len(validated_pain_points)
      may_2025_count   == May2025Count(validated_pain_points)
  IN  IF confidence >= 70 /\ pain_point_count = 2 THEN
        IF may_2025_count > 0
          THEN "STRONG RECOMMENDATION - Multiple validated pain points found with recent May 2025 source evidence"
          ELSE "STRONG RECOMMENDATION - Multiple validated pain points found with source evidence"
      ELSE IF confidence >= 50 /\ pain_point_count >= 1 THEN
        IF may_2025_count > 0
          THEN "MODERATE RECOMMENDATION - Validated pain points identified with recent May 2025 source URLs"
          ELSE "MODERATE RECOMMENDATION - Validated pain points identified with source URLs"
      ELSE IF confidence >= 30 THEN
        "WEAK RECOMMENDATION - Some challenges identified but limited pain point evidence"
      ELSE
        "INSUFFICIENT EVIDENCE - No validated pain points with source proof found"

\* _generate_recommendation(analysis), which reads confidence_score and
\* validated_pain_points.
Recommendation(confidence, validated_pain_points) ==
  LET pain_point_count == Len(validated_pain_points)
      may_2025_count   == May2025Count(validated_pain_points)
  IN  IF confidence >= 70 /\ pain_point_count >= 2 THEN
        IF may_2025_count > 0
          THEN "STRONG RECOMMENDATION - Multiple validated pain points found with recent May 2025 source evidence"
          ELSE "STRONG RECOMMENDATION - Multiple validated pain points found with source evidence"
      ELSE IF confidence >= 50 /\ pain_point_count >= 1 THEN
        IF may_2025_count > 0
          THEN "MODERATE RECOMMENDATION - Validated pain points identified with recent May 2025 source URLs"
          ELSE "MODERATE RECOMMENDATION - Validated pain points identified with source URLs"
      ELSE IF confidence >= 30 THEN
        "WEAK RECOMMENDATION - Some challenges identified but limited pain point evidence"
      ELSE
        "INSUFFICIENT EVIDENCE - No validated pain points with source proof found"

\* analyze_company_fit(research_data), in a process whose sets enumerate
\* in the given order.  core_business, always empty, and the three report
\* texts (pain_point_analysis, client_potential_summary, fit_justification)
\* are left out.
analyze_company_fit(name, research_data, order) ==
  LET validated_pain_points == research_data.identified_pain_points
      pain_point_count      == Len(validated_pain_points)
      scan == ScanResearchPoints(research_data.research_points, 1, ScanStart)
      confidence_score ==
        ConfidenceScore(pain_point_count, scan.tech_count, scan.challenge_count)
  IN  [ company_name             |-> name,
        industry                 |-> scan.industry,
        technology_stack         |-> scan.technology_stack,
        identified_challenges    |-> scan.identified_challenges,
        validated_pain_points    |-> validated_pain_points,
        digital_maturity         |-> DigitalMaturity(scan.tech_count),
        potential_iNube_services |->
          PotentialServices(validated_pain_points, scan.challenge_count,
                            scan.tech_count, order),
        recommendation           |->
          Recommendation(confidence_score, validated_pain_points),
        confidence_score         |-> confidence_score,
        sources                  |-> research_data.sources,
        may_2025_sources         |-> research_data.may_2025_sources ]

-----------------------------------------------------------------------------
(* research_company and the call of analyze_company_fit in main()          *)

\* if response and 'results' in response
HasResults(response) == response.present /\ response.has_results

\* Length of the content kept in may_2025_sources (line 164).
MaySourceContentLen == 500

\* The dict appended to may_2025_sources (lines 161-166).
MaySource(result, query) ==
  [ title   |-> result.title,
    url     |-> result.url,
    content |-> IF Len(result.content) > MaySourceContentLen
                  THEN Slice(result.content, 0, MaySourceContentLen) \o <<".",".",".">>
                  ELSE result.content,
    query   |-> query ]

\* source_info (lines 107-113 and 153-159)
SourceInfo(result, query, base) ==
  [ title       |-> result.title,
    url         |-> result.url,
    content     |-> result.content,
    query       |-> query,
    time_period |-> IF base THEN "General" ELSE "May 2025" ]

\* for result in response['results'], from record j on, in the first loop
\* (base) or the second.  A record whose content is None is appended to
\* all_results and then raises: in the first loop in _extract_key_points
\* (content.lower()), in the second at len(result.get('content', '')); the
\* exception leaves the for loop with what the earlier records added.
RECURSIVE ProcessResults(_, _, _, _, _)
ProcessResults(results, j, query, base, acc) ==
  IF j > Len(results) THEN acc
  ELSE
    LET result == results[j]
        listed == Append(acc.all_results, SourceInfo(result, query, base))
    IN  IF ContentRaises(result)
          THEN [ acc EXCEPT !.all_results = listed, !.raised = TRUE ]
          ELSE
            LET extracted   == Extraction(result, query)
                points      == extracted.points
                pain_points == extracted.pain_points
            IN  ProcessResults(results, j + 1, query, base,
                  [ all_results            |-> listed,
                    may_2025_sources       |->
                      IF base THEN acc.may_2025_sources
                      ELSE Append(acc.may_2025_sources, MaySource(result, query)),
                    research_points        |-> acc.research_points \o points,
                    identified_pain_points |->
                      acc.identified_pain_points \o pain_points,
                    pp_owner               |->
                      acc.pp_owner \o [ i \in 1..Len(pain_points) |-> Len(listed) ],
                    raised                 |-> FALSE ])

Init ==
  /\ pc = "search"
  /\ qi = 1
  /\ company_name \in CompanyNames
  /\ include_may_2025 \in BOOLEAN
  /\ hash_order = << >>
  /\ all_results = << >>
  /\ analysis_data = EmptyAnalysisData
  /\ analysis = NoAnalysis
  /\ pp_owner = << >>
  /\ issued = << >>
  /\ search_failed = FALSE
  /\ extract_call = NoCall
  /\ last_answer = None

\* Where the loops stand after query q: at the next query, or past the
\* loops when q was the last one.
AfterQuery(q) ==
  IF q < NumQueries(include_may_2025) THEN "search" ELSE "finish"

\* client.search raises and the exception leaves research_company.
SearchRaisesUncaught ==
  /\ pc = "search"
  /\ issued' = Append(issued, qi)
  /\ search_failed' = TRUE
  /\ last_answer' = None
  /\ pc' = "raised"
  /\ UNCHANGED << qi, company_name, include_may_2025, hash_order, all_results,
                  analysis_data, analysis, pp_owner, extract_call >>

\* client.search raises and the except clause ends the loops, as a break
\* in place of the continue would.
SearchRaisesEndsLoops ==
  /\ pc = "search"
  /\ issued' = Append(issued, qi)
  /\ search_failed' = TRUE
  /\ last_answer' = None
  /\ qi' = qi + 1
  /\ pc' = "finish"
  /\ UNCHANGED << company_name, include_may_2025, hash_order, all_results,
                  analysis_data, analysis, pp_owner, extract_call >>

\* client.search raises: except Exception reports the error and continues
\* with the next query, without the sleep.
SearchRaises ==
  /\ pc = "search"
  /\ issued' = Append(issued, qi)
  /\ search_failed' = TRUE
  /\ last_answer' = None
  /\ qi' = qi + 1
  /\ pc' = AfterQuery(qi)
  /\ UNCHANGED << company_name, include_may_2025, hash_order, all_results,
                  analysis_data, analysis, pp_owner, extract_call >>

\* client.search returns a response and the body of the try processes its
\* records, up to time.sleep(1) or up to the record that raises.
SearchReturns ==
  /\ pc = "search"
  /\ LET query == Queries(company_name, include_may_2025)[qi]
         start ==
           [ all_results            |-> all_results,
             may_2025_sources       |-> analysis_data.may_2025_sources,
             research_points        |-> analysis_data.research_points,
             identified_pain_points |-> analysis_data.identified_pain_points,
             pp_owner               |-> pp_owner,
             raised                 |-> FALSE ]
     IN  \E response \in Responses(MaxRecords - Len(all_results)) :
           LET done ==
                 ProcessResults(IF HasResults(response) THEN response.results
                                                        ELSE << >>,
                                1, query, IsBaseQuery(qi), start)
           IN  /\ last_answer' = (IF response.present THEN response.answer ELSE None)
               /\ all_results' = done.all_results
               /\ analysis_data' =
                    [ analysis_data EXCEPT
                        !.may_2025_sources       = done.may_2025_sources,
                        !.research_points        = done.research_points,
                        !.identified_pain_points = done.identified_pain_points ]
               /\ pp_owner' = done.pp_owner
               /\ IF done.raised
                    THEN qi' = qi + 1 /\ pc' = AfterQuery(qi)
                    ELSE qi' = qi /\ pc' = "sleep"
  /\ issued' = Append(issued, qi)
  /\ UNCHANGED << company_name, include_may_2025, hash_order, analysis,
                  search_failed, extract_call >>

\* time.sleep(1), the last statement of the try
Sleep ==
  /\ pc = "sleep"
  /\ qi' = qi + 1
  /\ pc' = AfterQuery(qi)
  /\ last_answer' = None
  /\ UNCHANGED << company_name, include_may_2025, hash_order, all_results,
                  analysis_data, analysis, pp_owner, issued, search_failed,
                  extract_call >>

\* Lines 180-184: the sources without repetition, and the return.
Finish ==
  /\ pc = "finish"
  /\ analysis_data' =
       [ analysis_data EXCEPT !.sources =
           { [ url         |-> all_results[i].url,
               title       |-> all_results[i].title,
               time_period |-> all_results[i].time_period ] :
             i \in 1..Len(all_results) } ]
  /\ pc' = "returned"
  /\ UNCHANGED << qi, company_name, include_may_2025, hash_order, all_results,
                  analysis, pp_owner, issued, search_failed, extract_call,
                  last_answer >>

\* analysis = agent.analyze_company_fit(research_data)   (main, line 552)
AnalyzeCompanyFit ==
  /\ pc = "returned"
  /\ \E order \in (IF hash_order = << >> THEN HashOrders ELSE { hash_order }) :
       /\ hash_order' = order
       /\ analysis' = analyze_company_fit(company_name, analysis_data, order)
  /\ pc' = "analysed"
  /\ UNCHANGED << qi, company_name, include_may_2025, all_results,
                  analysis_data, pp_owner, issued, search_failed, extract_call,
                  last_answer >>

Next ==
  \/ SearchRaises
  \/ SearchReturns
  \/ Sleep
  \/ Finish
  \/ AnalyzeCompanyFit

Spec == Init /\ [][Next]_vars

-----------------------------------------------------------------------------
(* analyze_company_fit on a bounded family of research_data                *)

\* The lists of at most n entries drawn from kinds, the kinds in list
\* order: one list for every multiset.
ListsOf(kinds, n) ==
  UNION { { [ i \in 1..m |-> kinds[s[i]] ] :
              s \in { t \in [1..m -> 1..Len(kinds)] :
                        \A i \in 1..(m - 1) : t[i] <= t[i + 1] } } :
          m \in 0..n }

InitFit ==
  /\ pc = "returned"
  /\ qi = 0
  /\ company_name = <<"A","c","m","e"," ","I","n","s","u","r","a","n","c","e">>
  /\ include_may_2025 = TRUE
  /\ hash_order = << >>
  /\ all_results = << >>
  /\ \E pain_points \in ListsOf(FitEvidenceKinds, MaxEvidence) :
       \E points \in ListsOf(FitPointKinds, MaxPoints) :
         analysis_data = [ EmptyAnalysisData EXCEPT
                             !.identified_pain_points = pain_points,
                             !.research_points        = points ]
  /\ analysis = NoAnalysis
  /\ pp_owner = << >>
  /\ issued = << >>
  /\ search_failed = FALSE
  /\ extract_call = NoCall
  /\ last_answer = None

\* A second call of analyze_company_fit that enumerates its set in an order
\* of its own, as if the order were drawn at every call.
AnalyzeAgainFreshOrder ==
  /\ pc = "analysed"
  /\ \E order \in HashOrders :
       analysis' = analyze_company_fit(company_name, analysis_data, order)
  /\ pc' = "analysed_again"
  /\ UNCHANGED << qi, company_name, include_may_2025, hash_order, all_results,
                  analysis_data, pp_owner, issued, search_failed, extract_call,
                  last_answer >>

\* A second call analysis = agent.analyze_company_fit(research_data) on the
\* same research_data, in the same process: the function reads
\* research_data and appends only to lists it has created itself.
AnalyzeAgain ==
  /\ pc = "analysed"
  /\ analysis' = analyze_company_fit(company_name, analysis_data, hash_order)
  /\ pc' = "analysed_again"
  /\ UNCHANGED << qi, company_name, include_may_2025, hash_order, all_results,
                  analysis_data, pp_owner, issued, search_failed, extract_call,
                  last_answer >>

\* A call of analyze_company_fit on the research_data of the first call
\* with one more Evidence appended to identified_pain_points and
\* research_points left as they are.
AnalyzeWithOneMoreEvidence ==
  /\ pc = "analysed"
  /\ Len(analysis_data.identified_pain_points) < MaxEvidence
  /\ \E k \in 1..Len(FitEvidenceKinds) :
       /\ analysis_data' =
            [ analysis_data EXCEPT !.identified_pain_points =
                Append(@, FitEvidenceKinds[k]) ]
       /\ analysis' = analyze_company_fit(company_name, analysis_data', hash_order)
  /\ pc' = "analysed_more"
  /\ UNCHANGED << qi, company_name, include_may_2025, hash_order, all_results,
                  pp_owner, issued, search_failed, extract_call, last_answer >>

NextFit ==
  \/ AnalyzeCompanyFit
  \/ AnalyzeAgain
  \/ AnalyzeWithOneMoreEvidence

SpecFit == InitFit /\ [][NextFit]_vars

-----------------------------------------------------------------------------
(* Properties of _extract_pain_points, checked under SpecExtract           *)

\* The numbers of the keywords of a category that content_lower contains.
MatchingKeywords(pain_point_id, content_lower) ==
  { k \in 1..Len(pain_points_mapping[pain_point_id].keywords) :
      Contains(pain_points_mapping[pain_point_id].keywords[k], content_lower) }

\* The first keyword of the category, in list order, that content_lower
\* contains.
FirstKeyword(pain_point_id, content_lower) ==
  pain_points_mapping[pain_point_id].keywords[
    CHOOSE k \in MatchingKeywords(pain_point_id, content_lower) :
      \A j \in MatchingKeywords(pain_point_id, content_lower) : k <= j ]

\* The number of entries of a list of Evidence that belong to a category.
EvidenceCount(pain_points, pain_point_id) ==
  Cardinality({ i \in 1..Len(pain_points) :
                  pain_points[i].pain_point_id = pain_point_id })

\* The call of _extract_pain_points has returned a list.
Extracted == pc = "extracted" /\ extract_call.ret.raised = ""

PainPointIdSet == { PainPointIds[p] : p \in 1..Len(PainPointIds) }

\* The trimmed window of the first matching keyword of a category.
FirstContext(pain_point_id, content) ==
  PainContext(content, Lower(content),
              FirstKeyword(pain_point_id, Lower(content)))

\* C1 as stated: whenever the lower-cased content of the record contains a
\* keyword of a category, the list returned by _extract_pain_points holds
\* exactly one Evidence of that category.
C1_ExactlyOneWheneverMatched ==
  Extracted =>
    \A id \in PainPointIdSet :
      MatchingKeywords(id, Lower(extract_call.result.content)) # {}
        => EvidenceCount(extract_call.ret.value, id) = 1

\* C1 amended: the list returned holds exactly one Evidence of a category
\* when the lower-cased content contains a keyword of the category and the
\* trimmed window of the first such keyword is longer than 50 characters,
\* and no Evidence of the category otherwise; so never two.
C1_OneIffFirstMatchKept ==
  Extracted =>
    \A id \in PainPointIdSet :
      LET content == extract_call.result.content
      IN  EvidenceCount(extract_call.ret.value, id) =
            IF /\ MatchingKeywords(id, Lower(content)) # {}
               /\ Len(FirstContext(id, content)) > 50
              THEN 1 ELSE 0

\* A record with two keywords of one category has given one Evidence of it.
C1_Witness ==
  /\ Extracted
  /\ \E id \in PainPointIdSet :
       /\ Cardinality(MatchingKeywords(id, Lower(extract_call.result.content))) >= 2
       /\ EvidenceCount(extract_call.ret.value, id) = 1

\* C4: every Evidence returned has a context window longer than 50
\* characters, and a category whose matched keyword has a trimmed window of
\* 50 characters or fewer has no Evidence in the list.
C4_SurvivingContextLongerThan50 ==
  Extracted =>
    /\ \A i \in 1..Len(extract_call.ret.value) :
         Len(extract_call.ret.value[i].evidence) > 50
    /\ \A id \in PainPointIdSet :
         LET content == extract_call.result.content
         IN  ( /\ MatchingKeywords(id, Lower(content)) # {}
               /\ Len(FirstContext(id, content)) <= 50 )
               => EvidenceCount(extract_call.ret.value, id) = 0

\* A match with a trimmed window of exactly 50 characters was discarded.
C4_Witness ==
  /\ Extracted
  /\ \E id \in PainPointIdSet :
       /\ MatchingKeywords(id, Lower(extract_call.result.content)) # {}
       /\ Len(FirstContext(id, extract_call.result.content)) = 50
       /\ EvidenceCount(extract_call.ret.value, id) = 0

\* C5: for every keyword found in the lower-cased content, at index i, the
\* window indices start = max(0, i - 150) and end = min(len(content), i + 300)
\* satisfy 0 <= start <= i < end <= len(content) and end - start <= 450.
C5_WindowAroundMatch ==
  Extracted =>
    \A id \in PainPointIdSet :
      LET content       == extract_call.result.content
          content_lower == Lower(content)
      IN  \A k \in MatchingKeywords(id, content_lower) :
            LET keyword == pain_points_mapping[id].keywords[k]
                i       == Find(content_lower, keyword)
                start   == PainStartIdx(content_lower, keyword)
                end     == PainEndIdx(content, content_lower, keyword)
            IN  /\ start = Max(0, i - 150)
                /\ end = Min(Len(content), i + 300)
                /\ 0 <= start /\ start <= i /\ i < end /\ end <= Len(content)
                /\ end - start <= 450

-----------------------------------------------------------------------------
(* Properties of research_company, checked under Spec                      *)

\* For the records the collaborator returns whose content is a str and for
\* every category: how many keywords of the category the lower-cased
\* content contains, and the first of them in list order.
KeywordFacts ==
  { [ content       |-> r.content,
      pain_point_id |-> id,
      matching      |-> Cardinality(MatchingKeywords(id, Lower(r.content))),
      first         |-> IF MatchingKeywords(id, Lower(r.content)) = {}
                          THEN << >>
                          ELSE FirstKeyword(id, Lower(r.content)) ] :
    r \in { s \in SearchRecords : ~ContentRaises(s) }, id \in PainPointIdSet }

KeywordFact(content, id) ==
  CHOOSE f \in KeywordFacts : f.pain_point_id = id /\ f.content = content

\* The entries of identified_pain_points that record number r of
\* all_results gave for a category.
Owned(r, id) ==
  { i \in 1..Len(analysis_data.identified_pain_points) :
      /\ pp_owner[i] = r
      /\ analysis_data.identified_pain_points[i].pain_point_id = id }

\* C2: in every state of a request, identified_pain_points holds at most
\* one Evidence per (record, category), and the keyword of that Evidence is
\* the first keyword of the category that the record's lower-cased content
\* contains: whether or not that first match was kept, no later keyword of
\* the category gave an Evidence.
C2_AtMostOnePerRecordAndCategory ==
  \A r \in 1..Len(all_results) : \A id \in PainPointIdSet :
    /\ Cardinality(Owned(r, id)) <= 1
    /\ \A i \in Owned(r, id) :
         analysis_data.identified_pain_points[i].keyword_found
           = KeywordFact(all_results[r].content, id).first

\* A record with two keywords of one category has one Evidence of it in
\* identified_pain_points.
C2_Witness ==
  \E r \in 1..Len(all_results) : \E id \in PainPointIdSet :
    /\ ~ContentRaises(all_results[r])
    /\ KeywordFact(all_results[r].content, id).matching >= 2
    /\ Cardinality(Owned(r, id)) = 1

\* The numbers of all the queries of the request, in template order.
AllIssued ==
  [ q \in 1..NumQueries(include_may_2025) |-> q ]

\* C3: no search call that raises makes an exception leave
\* research_company; after a failed call the loops go on, so that when
\* research_company has returned every query of the request was issued.
C3_FailedQueriesDoNotStopTheRequest ==
  /\ pc # "raised"
  /\ pc \in { "search", "sleep" } => issued = SubSeq(AllIssued, 1, Len(issued))
  /\ pc \in { "finish", "returned", "analysed" } => issued = AllIssued

\* research_company has returned although a search call raised.
C3_Witness ==
  /\ pc = "returned"
  /\ search_failed
  /\ issued = AllIssued
  /\ Len(all_results) > 0

\* The recommendation of the lowest tier.
Insufficient ==
  "INSUFFICIENT EVIDENCE - No validated pain points with source proof found"

\* C8: when no query of the request returned a record, the analysis has an
\* empty evidence list, confidence_score 0 and the INSUFFICIENT EVIDENCE
\* recommendation.
C8_NoResultsGiveInsufficient ==
  (pc = "analysed" /\ all_results = << >>) =>
    /\ analysis.validated_pain_points = << >>
    /\ analysis.confidence_score = 0
    /\ analysis.recommendation = Insufficient

\* A request of fourteen queries, none of which raised or returned a
\* record, has been analysed.
C8_Witness ==
  /\ pc = "analysed"
  /\ all_results = << >>
  /\ ~search_failed
  /\ Len(issued) = 14
  /\ analysis.confidence_score = 0

-----------------------------------------------------------------------------
(* Properties of analyze_company_fit, checked under SpecFit                *)

\* C6: confidence_score is an integer from 0 to 100.
C6_ConfidenceWithin0And100 ==
  pc = "analysed" => analysis.confidence_score \in 0..100

\* An input whose three partial scores reach their caps scores 100.
C6_Witness ==
  /\ pc = "analysed"
  /\ Len(analysis_data.identified_pain_points) >= 4
  /\ Len(analysis_data.research_points) >= 5
  /\ analysis.confidence_score = 100

\* C7: an input without Evidence gets the INSUFFICIENT EVIDENCE
\* recommendation, whatever its research points.
C7_NoEvidenceGivesInsufficient ==
  (pc = "analysed" /\ analysis_data.identified_pain_points = << >>) =>
    analysis.recommendation = Insufficient

\* C9: potential_iNube_services names only keys of the service catalog.
C9_ServicesWithinCatalog ==
  pc = "analysed" =>
    Elements(analysis.potential_iNube_services) \subseteq Elements(iNube_services)

\* Evidence of three categories has given all six services.
C9_Witness ==
  /\ pc = "analysed"
  /\ Elements(analysis.potential_iNube_services) = Elements(iNube_services)

\* The number of research points whose lower-cased text contains one of
\* the keywords.
PointCount(research_points, keywords) ==
  Cardinality({ i \in 1..Len(research_points) :
                  AnyKeyword(keywords, Lower(research_points[i].point)) })

\* The services recommended for the categories that have Evidence.
ServiceUnion(pain_points) ==
  UNION { Elements(pain_points_mapping[pain_points[i].pain_point_id].iNube_solutions) :
          i \in 1..Len(pain_points) }

\* C10: potential_iNube_services lists, each once, the union of the
\* services of the categories that have Evidence; when the union is empty
\* it is the first three catalog keys if challenge count > 0 or technology
\* count < 3, and empty otherwise.
C10_ServicesAreUnionOrFallback ==
  pc = "analysed" =>
    LET union == ServiceUnion(analysis_data.identified_pain_points)
        challenge_count ==
          PointCount(analysis_data.research_points, challenge_keywords)
        tech_count == PointCount(analysis_data.research_points, tech_keywords)
    IN  IF union # {}
          THEN /\ Elements(analysis.potential_iNube_services) = union
               /\ Len(analysis.potential_iNube_services) = Cardinality(union)
          ELSE IF challenge_count > 0 \/ tech_count < 3
            THEN analysis.potential_iNube_services =
                   << "policy_administration", "claims_management",
                      "digital_distribution" >>
            ELSE analysis.potential_iNube_services = << >>

\* One Evidence of legacy_systems alone has given its three services.
C10_Witness ==
  /\ pc = "analysed"
  /\ Len(analysis_data.identified_pain_points) = 1
  /\ analysis_data.identified_pain_points[1].pain_point_id = "legacy_systems"
  /\ Elements(analysis.potential_iNube_services) =
       { "policy_administration", "digital_distribution", "claims_management" }

-----------------------------------------------------------------------------
(* The recommendation tiers                                                *)

\* The tier of a recommendation text: 3 STRONG, 2 MODERATE, 1 WEAK,
\* 0 INSUFFICIENT EVIDENCE.
Tier(recommendation) ==
  IF recommendation \in
       { "STRONG RECOMMENDATION - Multiple validated pain points found with recent May 2025 source evidence",
         "STRONG RECOMMENDATION - Multiple validated pain points found with source evidence" }
    THEN 3
  ELSE IF recommendation \in
       { "MODERATE RECOMMENDATION - Validated pain points identified with recent May 2025 source URLs",
         "MODERATE RECOMMENDATION - Validated pain points identified with source URLs" }
    THEN 2
  ELSE IF recommendation =
       "WEAK RECOMMENDATION - Some challenges identified but limited pain point evidence"
    THEN 1
  ELSE 0

\* The number of distinct categories that have Evidence in a list.
UniqueCategoryCount(pain_points) ==
  Cardinality({ pain_points[i].pain_point_id : i \in 1..Len(pain_points) })

\* C11: the recommendation is STRONG iff confidence_score >= 70 and at
\* least two distinct categories have Evidence; otherwise MODERATE iff
\* confidence_score >= 50 and some category has Evidence; otherwise WEAK iff
\* confidence_score >= 30; otherwise INSUFFICIENT EVIDENCE.  So Evidence of
\* a single category never gives STRONG.
C11_TierStepsOnUniqueCategories ==
  pc = "analysed" =>
    LET score  == analysis.confidence_score
        unique == UniqueCategoryCount(analysis_data.identified_pain_points)
    IN  Tier(analysis.recommendation) =
          IF score >= 70 /\ unique >= 2 THEN 3
          ELSE IF score >= 50 /\ unique >= 1 THEN 2
          ELSE IF score >= 30 THEN 1
          ELSE 0

\* C12: confidence_score = min(100, min(50, 15 * uniqueCategoryCount)
\* + min(25, 5 * techKeywordCount) + min(25, 5 * challengeKeywordCount)),
\* uniqueCategoryCount being the number of distinct categories with
\* Evidence: two Evidence of one category from two records count once.
C12_ScoreCountsCategoriesOnce ==
  pc = "analysed" =>
    LET unique == UniqueCategoryCount(analysis_data.identified_pain_points)
        tech_count == PointCount(analysis_data.research_points, tech_keywords)
        challenge_count ==
          PointCount(analysis_data.research_points, challenge_keywords)
    IN  analysis.confidence_score =
          Min(100, Min(50, 15 * unique) + Min(25, 5 * tech_count)
                     + Min(25, 5 * challenge_count))

-----------------------------------------------------------------------------
(* Properties of the loops of research_company, checked under Spec         *)

\* The number of research points whose text is the given text.
AnswerEntries(research_points, text) ==
  Cardinality({ i \in 1..Len(research_points) : research_points[i].point = text })

\* C14: a search call whose response carries a synthesized answer adds
\* exactly one research point whose text is that answer, and no Evidence
\* of identified_pain_points has the answer for its text.
C14_AnswerBecomesOneResearchPoint ==
  [][ (Len(issued') = Len(issued) + 1 /\ last_answer' # None) =>
        /\ AnswerEntries(analysis_data'.research_points, last_answer')
             = AnswerEntries(analysis_data.research_points, last_answer') + 1
        /\ \A i \in 1..Len(analysis_data'.identified_pain_points) :
             analysis_data'.identified_pain_points[i].evidence # last_answer'
    ]_vars

\* s is a prefix of t.
IsPrefix(s, t) == Len(s) <= Len(t) /\ SubSeq(t, 1, Len(s)) = s

\* A step that issues a query and does not reach time.sleep(1): the search
\* call raised, or processing a record of its response raised.
QueryFails == Len(issued') = Len(issued) + 1 /\ pc' # "sleep"

\* C15: a query that fails adds no entry to all_results, research_points
\* or identified_pain_points, and no query removes or changes the entries
\* the queries before it have added.
C15_FailedQueryContributesNothing ==
  [][ /\ IsPrefix(all_results, all_results')
      /\ IsPrefix(analysis_data.research_points, analysis_data'.research_points)
      /\ IsPrefix(analysis_data.identified_pain_points,
                  analysis_data'.identified_pain_points)
      /\ QueryFails =>
           /\ all_results' = all_results
           /\ analysis_data'.research_points = analysis_data.research_points
           /\ analysis_data'.identified_pain_points
                = analysis_data.identified_pain_points ]_vars

\* C16: after every search call, whether it returned or raised, the request
\* stands at the delay or past the loops, never at the next search call: so
\* time.sleep(1) runs between every two successive calls.
C16_DelayBetweenSuccessiveCalls ==
  [][ Len(issued') = Len(issued) + 1 => pc' \in { "sleep", "finish" } ]_vars

\* The time_period of the phase that issues query number q.
PhaseOf(q) == IF IsBaseQuery(q) THEN "General" ELSE "May 2025"

\* C17: every Evidence and every research point a query adds carries the
\* time_period of the phase of that query, as the entries the query adds to
\* all_results do, whatever the company name; so an Evidence always has the
\* time_period of its record in all_results.
C17_TimePeriodIsThePhase ==
  /\ [](\A i \in 1..Len(analysis_data.identified_pain_points) :
          analysis_data.identified_pain_points[i].time_period
            = all_results[pp_owner[i]].time_period)
  /\ [][ pc = "search" =>
          /\ \A i \in (Len(all_results) + 1)..Len(all_results') :
               all_results'[i].time_period = PhaseOf(qi)
          /\ \A i \in (Len(analysis_data.research_points) + 1)
                        ..Len(analysis_data'.research_points) :
               analysis_data'.research_points[i].time_period = PhaseOf(qi)
          /\ \A i \in (Len(analysis_data.identified_pain_points) + 1)
                        ..Len(analysis_data'.identified_pain_points) :
               analysis_data'.identified_pain_points[i].time_period = PhaseOf(qi)
       ]_vars

\* C18: the search calls of a request are issued in template order, one
\* per query: the 8 base queries first, then the 6 date-restricted queries
\* and only when include_may_2025; without it exactly 8 calls are made and
\* may_2025_sources stays empty.  The number of calls is the same whichever
\* calls fail.
C18_CallsInTemplateOrder ==
  /\ \A k \in 1..Len(issued) : issued[k] = k
  /\ Len(issued) <= (IF include_may_2025 THEN 14 ELSE 8)
  /\ pc \in { "finish", "returned", "analysed" }
       => Len(issued) = (IF include_may_2025 THEN 14 ELSE 8)
  /\ \A i \in 1..Len(all_results) :
       all_results[i].time_period = "May 2025"
         => include_may_2025 /\ Len(issued) > 8
  /\ analysis_data.may_2025_sources # << >>
       => include_may_2025 /\ Len(issued) > 8

\* A request without the May 2025 searches has returned after exactly 8
\* calls, one of which raised, with records found and no May 2025 source.
C18_Witness ==
  /\ pc = "returned"
  /\ ~include_may_2025
  /\ search_failed
  /\ Len(issued) = 8
  /\ all_results # << >>
  /\ analysis_data.may_2025_sources = << >>

-----------------------------------------------------------------------------
(* Monotonicity of analyze_company_fit, checked under SpecFit              *)

\* C19: appending one more Evidence to identified_pain_points, with
\* research_points unchanged, never lowers confidence_score and never
\* moves the recommendation to a lower tier.
C19_MoreEvidenceNeverLowers ==
  [][ pc' = "analysed_more" =>
        /\ analysis_data'.research_points = analysis_data.research_points
        /\ analysis'.confidence_score >= analysis.confidence_score
        /\ Tier(analysis'.recommendation) >= Tier(analysis.recommendation)
    ]_vars

\* One more Evidence has been appended, which gives three, and the analysis
\* of the longer list is STRONG.
C19_Witness ==
  /\ pc = "analysed_more"
  /\ Len(analysis_data.identified_pain_points) = 3
  /\ analysis.confidence_score >= 70
  /\ Tier(analysis.recommendation) = 3

=============================================================================
